---- MODULE Spec2Model ----
(***************************************************************************)
(* Model of smartdispatch/smartdispatch.py: unfold_command,                *)
(* generate_name_from_command and replace_uid_tag.                         *)
(*                                                                         *)
(* A Python str is a sequence of one-character strings.  The escaped text  *)
(* produced by utils.encode_escaped_characters is a sequence of symbols    *)
(* [ch, esc]: esc = TRUE marks a character protected by the escape marker. *)
(***************************************************************************)
EXTENDS Integers, Sequences, FiniteSets

\* ------------------------------------------------------------------ bounds
MaxLen == 5
MaxVal == 5
MaxStep == 2
MaxNameCommandLen == 4
MaxArgLength == 4
MaxTailLength == 3
MaxUidPieces == 2
MaxCommands == 2

\* ------------------------------------------------------- generic helpers
Range(s) == {s[i] : i \in 1..Len(s)}

RECURSIVE Flatten(_)
Flatten(ss) == IF ss = <<>> THEN <<>> ELSE Head(ss) \o Flatten(Tail(ss))

Min(a, b) == IF a < b THEN a ELSE b
Max(a, b) == IF a > b THEN a ELSE b

\* Python s[a:b] for 0 <= a, 0 <= b (offsets clipped to the length).
Slice(s, a, b) == SubSeq(s, Min(a, Len(s)) + 1, Min(b, Len(s)))

\* ------------------------------------------------------- text transforms
EscapeChar == "\\"

Plain(s) == [i \in 1..Len(s) |-> [ch |-> s[i], esc |-> FALSE]]

Is(sym, c) == ~sym.esc /\ sym.ch = c

\* utils.encode_escaped_characters: every pair (escape marker, character) is
\* replaced by the protected form of that character; a lone trailing marker
\* is left as it is.
RECURSIVE encode_escaped_characters(_)
encode_escaped_characters(s) ==
    IF s = <<>> THEN <<>>
    ELSE IF s[1] = EscapeChar /\ Len(s) >= 2
         THEN <<[ch |-> s[2], esc |-> TRUE]>> \o encode_escaped_characters(SubSeq(s, 3, Len(s)))
         ELSE <<[ch |-> s[1], esc |-> FALSE]>> \o encode_escaped_characters(Tail(s))

\* utils.decode_escaped_characters: a protected character becomes the
\* character itself.
decode_escaped_characters(t) == [i \in 1..Len(t) |-> t[i].ch]

\* ------------------------------------------------------- decimal numbers
Digits == <<"0", "1", "2", "3", "4", "5", "6", "7", "8", "9">>

IsDigit(sym) == ~sym.esc /\ sym.ch \in Range(Digits)

DigitVal(c) == (CHOOSE d \in 1..Len(Digits) : Digits[d] = c) - 1

RECURSIVE NatToStr(_)
NatToStr(n) == IF n < Len(Digits) THEN <<Digits[n + 1]>>
               ELSE NatToStr(n \div Len(Digits)) \o <<Digits[(n % Len(Digits)) + 1]>>

\* str(i)
IntToStr(i) == IF i < 0 THEN <<"-">> \o NatToStr(0 - i) ELSE NatToStr(i)

RECURSIVE StrToNat(_)
StrToNat(t) == IF t = <<>> THEN 0
               ELSE StrToNat(SubSeq(t, 1, Len(t) - 1)) * Len(Digits) + DigitVal(t[Len(t)].ch)

\* the text matches -?\d+
IsInt(t) ==
    LET d == IF t # <<>> /\ Is(t[1], "-") THEN Tail(t) ELSE t
    IN  d # <<>> /\ \A i \in 1..Len(d) : IsDigit(d[i])

\* int(text)
StrToInt(t) == IF Is(t[1], "-") THEN 0 - StrToNat(Tail(t)) ELSE StrToNat(t)

\* ------------------------------------------------- argument templates
IsSpace(sym) == Is(sym, " ")

\* text.split(sep) on an unprotected separator character: every field, empty
\* ones included.
RECURSIVE SplitOn(_, _)
SplitOn(t, c) ==
    IF \E i \in 1..Len(t) : Is(t[i], c)
    THEN LET i == CHOOSE j \in 1..Len(t) : Is(t[j], c) /\ \A h \in 1..(j - 1) : ~Is(t[h], c)
         IN  <<SubSeq(t, 1, i - 1)>> \o SplitOn(SubSeq(t, i + 1, Len(t)), c)
    ELSE <<t>>

\* The non-empty fields of a split on runs of whitespace.
SplitItems(t) == SelectSeq(SplitOn(t, " "), LAMBDA f : f # <<>>)

\* Body of "[start:end]" or "[start:end:step]", start, end and step integers.
IsRangeBody(b) ==
    LET f == SplitOn(b, ":")
    IN  Len(f) \in {2, 3} /\ \A i \in 1..Len(f) : IsInt(f[i])

\* Body of "[item1 item2 ... itemN]": items without unprotected whitespace or
\* brackets, separated by one or more whitespace characters.
IsListBody(b) ==
    /\ b # <<>>
    /\ ~IsSpace(b[1])
    /\ ~IsSpace(b[Len(b)])
    /\ \A i \in 1..Len(b) : ~Is(b[i], "[") /\ ~Is(b[i], "]")

\* The registry, in order: the first alternative that matches wins.
argument_templates == <<"range", "list">>

TemplateMatches(name, b) == IF name = "range" THEN IsRangeBody(b) ELSE IsListBody(b)

\* Range template: the integers from start to end inclusive, by step.
RECURSIVE RangeFrom(_, _, _)
RangeFrom(cur, end, step) ==
    IF (step > 0 /\ cur > end) \/ (step < 0 /\ cur < end) THEN <<>>
    ELSE <<Plain(IntToStr(cur))>> \o RangeFrom(cur + step, end, step)

RangeStep(b) == LET f == SplitOn(b, ":") IN IF Len(f) = 3 THEN StrToInt(f[3]) ELSE 1

\* A zero step is a usage error raised to the caller.
UnfoldRaises(name, matched_text) ==
    name = "range" /\ RangeStep(SubSeq(matched_text, 2, Len(matched_text) - 1)) = 0

unfold(name, matched_text) ==
    LET b == SubSeq(matched_text, 2, Len(matched_text) - 1)
    IN  IF name = "range"
        THEN LET f == SplitOn(b, ":")
             IN  RangeFrom(StrToInt(f[1]), StrToInt(f[2]), RangeStep(b))
        ELSE SplitItems(b)

\* --------------------------------------------------------- the master regex
\* Least index q >= from with an unprotected c at t[q]; 0 when there is none.
RECURSIVE Find(_, _, _)
Find(t, from, c) ==
    IF from > Len(t) THEN 0
    ELSE IF Is(t[from], c) THEN from
    ELSE Find(t, from + 1, c)

\* End offset of the bracket group opening at offset p (0-based): the first
\* unprotected "]" after it; 0 when there is none.
CloseOf(t, p) == Find(t, p + 2, "]")

\* Name of the first registered template matching the body b; "" when none.
MatchName(b) ==
    IF \E j \in 1..Len(argument_templates) : TemplateMatches(argument_templates[j], b)
    THEN argument_templates[CHOOSE j \in 1..Len(argument_templates) :
                                /\ TemplateMatches(argument_templates[j], b)
                                /\ \A h \in 1..(j - 1) : ~TemplateMatches(argument_templates[h], b)]
    ELSE ""

\* The match of the regex at offset p (0-based), name "" when there is none.
MatchAt(t, p) ==
    LET q == CloseOf(t, p)
    IN  IF p < Len(t) /\ Is(t[p + 1], "[") /\ q # 0
        THEN [start |-> p, end |-> q, name |-> MatchName(SubSeq(t, p + 2, q - 1))]
        ELSE [start |-> p, end |-> 0, name |-> ""]

\* re.finditer(regex, text), searching from offset p: the non-overlapping
\* matches, left to right, as [start, end, name].
RECURSIVE finditer(_, _)
finditer(t, p) ==
    IF p >= Len(t) THEN <<>>
    ELSE LET m == MatchAt(t, p)
         IN  IF m.name # "" THEN <<m>> \o finditer(t, m.end)
             ELSE finditer(t, p + 1)

\* ---------------------------------------------------- itertools.product
\* Variant: the leftmost sequence varies fastest.
RECURSIVE productLeftFastest(_)
productLeftFastest(args) ==
    IF args = <<>> THEN << <<>> >>
    ELSE LET rest == productLeftFastest(Tail(args))
             h == Head(args)
         IN  [k \in 1..(Len(h) * Len(rest)) |->
                 <<h[((k - 1) % Len(h)) + 1]>> \o rest[((k - 1) \div Len(h)) + 1]]

\* Variant: zip(*args), the i-th values of every sequence together.
zipped(args) ==
    IF args = <<>> THEN << <<>> >>
    ELSE LET n == CHOOSE m \in {Len(args[i]) : i \in 1..Len(args)} :
                      \A i \in 1..Len(args) : m <= Len(args[i])
         IN  [k \in 1..n |-> [i \in 1..Len(args) |-> args[i][k]]]

\* Variant: a sequence without values is passed over.
RECURSIVE productSkipEmpty(_)
productSkipEmpty(args) ==
    IF args = <<>> THEN << <<>> >>
    ELSE LET rest == productSkipEmpty(Tail(args))
             h == Head(args)
         IN  IF h = <<>> THEN rest
             ELSE [k \in 1..(Len(h) * Len(rest)) |->
                     <<h[((k - 1) \div Len(rest)) + 1]>> \o rest[((k - 1) % Len(rest)) + 1]]

\* The tuples of the product, the rightmost sequence varying fastest.
RECURSIVE product(_)
product(args) ==
    IF args = <<>> THEN << <<>> >>
    ELSE LET rest == product(Tail(args))
             h == Head(args)
         IN  [k \in 1..(Len(h) * Len(rest)) |->
                 <<h[((k - 1) \div Len(rest)) + 1]>> \o rest[((k - 1) % Len(rest)) + 1]]

\* "".join(argvalues)
Join(argvalues) == Flatten(argvalues)

\* ------------------------------------------- generate_name_from_command
\* An optional integer argument: None when omitted.
None == [given |-> FALSE, val |-> 0]
Some(n) == [given |-> TRUE, val |-> n]

\* Python s[a:], a an integer (negative: counted from the end) or None.
SliceFrom(s, a) ==
    IF ~a.given THEN s
    ELSE LET start == IF a.val < 0 THEN Max(Len(s) + a.val, 0) ELSE Min(a.val, Len(s))
         IN  SubSeq(s, start + 1, Len(s))

\* Python s[:b], b an integer (negative: counted from the end) or None.
SliceTo(s, b) ==
    IF ~b.given THEN s
    ELSE LET stop == IF b.val < 0 THEN Max(Len(s) + b.val, 0) ELSE Min(b.val, Len(s))
         IN  SubSeq(s, 1, stop)

\* command.split(): the maximal runs of characters other than whitespace.
RECURSIVE split(_)
split(s) ==
    IF s = <<>> THEN <<>>
    ELSE IF s[1] = " " THEN split(Tail(s))
    ELSE LET n == IF \E i \in 1..Len(s) : s[i] = " "
                  THEN (CHOOSE i \in 1..Len(s) : s[i] = " " /\ \A h \in 1..(i - 1) : s[h] # " ") - 1
                  ELSE Len(s)
         IN  <<SubSeq(s, 1, n)>> \o split(SubSeq(s, n + 1, Len(s)))

Alphanumeric ==
    Range(Digits) \cup {"a", "b", "c", "d", "e", "f", "g", "h", "i", "j", "k", "l", "m",
                        "n", "o", "p", "q", "r", "s", "t", "u", "v", "w", "x", "y", "z", "_"}

\* utils.slugify: characters that are neither alphanumeric nor "-" are
\* removed, then every run of "-" collapses into one "_".
RECURSIVE CollapseDashes(_)
CollapseDashes(s) ==
    IF s = <<>> THEN <<>>
    ELSE IF s[1] = "-"
         THEN IF Len(s) >= 2 /\ s[2] = "-" THEN CollapseDashes(Tail(s))
              ELSE <<"_">> \o CollapseDashes(Tail(s))
         ELSE <<s[1]>> \o CollapseDashes(Tail(s))

slugify(value) == CollapseDashes(SelectSeq(value, LAMBDA c : c \in Alphanumeric \cup {"-"}))

\* '_'.join(parts)
RECURSIVE JoinWith(_, _)
JoinWith(sep, parts) ==
    IF parts = <<>> THEN <<>>
    ELSE IF Len(parts) = 1 THEN parts[1]
    ELSE parts[1] \o sep \o JoinWith(sep, Tail(parts))

\* Lines 35-36.
NormalisedArgLength(a) == IF a.given THEN Some(Min(0 - a.val, a.val)) ELSE None

\* Lines 38-39: the timestamp, then the trimmed slug of every argument.
AssembledName(time, cmd, a) ==
    LET tokens == split(cmd)
    IN  time \o JoinWith(<<"_">>, [i \in 1..Len(tokens) |->
                                      SliceFrom(slugify(tokens[i]), NormalisedArgLength(a))])

\* Variant: the name is trimmed keeping its last characters.
TrimmedKeepingLast(n, b) == IF b.given THEN SliceFrom(n, Some(Max(Len(n) - b.val, 0))) ELSE n

\* Line 40.
Trimmed(n, b) == SliceTo(n, b)

generate_name_from_command(time, cmd, a, b) == Trimmed(AssembledName(time, cmd, a), b)

\* ------------------------------------------------------- replace_uid_tag
UID_TAG == <<"{", "U", "I", "D", "}">>

UidChars == <<"e", "{", "}", "U", "I", "D", " ">>

CharCode(c) == CHOOSE i \in 1..Len(UidChars) : UidChars[i] = c

\* utils.generate_uid_from_string: a stable hash of the whole text, as digits.
RECURSIVE HashOf(_)
HashOf(s) == IF s = <<>> THEN 7
             ELSE (HashOf(SubSeq(s, 1, Len(s) - 1)) * 31 + CharCode(s[Len(s)])) % 9973

generate_uid_from_string(s) == NatToStr(HashOf(s))

StartsWith(s, old) == Len(s) >= Len(old) /\ SubSeq(s, 1, Len(old)) = old

\* s.replace(old, new): the occurrences of old, left to right, not overlapping.
RECURSIVE Replace(_, _, _)
Replace(s, old, new) ==
    IF s = <<>> THEN <<>>
    ELSE IF StartsWith(s, old) THEN new \o Replace(SubSeq(s, Len(old) + 1, Len(s)), old, new)
    ELSE <<s[1]>> \o Replace(Tail(s), old, new)

\* Variant: one identifier, that of the first command, serves every command.
replace_uid_tagSharedUid(cmds) ==
    [i \in 1..Len(cmds) |-> Replace(cmds[i], UID_TAG, generate_uid_from_string(cmds[1]))]

\* Line 103.
replace_uid_tag(cmds) ==
    [i \in 1..Len(cmds) |-> Replace(cmds[i], UID_TAG, generate_uid_from_string(cmds[i]))]

\* ------------------------------------------------------------------ inputs
Alphabet == {"[", "]", ":", " ", "1", "\\"}

CharStrings == UNION {[1..n -> Alphabet] : n \in 0..MaxLen}

Str_echo == <<"e", "c", "h", "o", " ">>

RangeText(s, e) == <<"[">> \o IntToStr(s) \o <<":">> \o IntToStr(e) \o <<"]">>
RangeStepText(s, e, st) ==
    <<"[">> \o IntToStr(s) \o <<":">> \o IntToStr(e) \o <<":">> \o IntToStr(st) \o <<"]">>

\* Values of start and end, and of step (negative ones included).
Vals == (0 - 1)..MaxVal
StepVals == (0 - MaxStep)..MaxStep

Ranges ==
    {RangeText(s, e) : s \in Vals, e \in Vals}
    \cup {RangeStepText(x[1], x[2], x[3]) : x \in Vals \X Vals \X StepVals}

Lists == { <<"[", "a", " ", "b", "]">>,
           <<"[", "a", " ", "b", " ", "c", "]">>,
           <<"[", "a", " ", "a", "]">>,
           <<"[", "a", " ", " ", "a", "b", "]">> }

SecondTemplates ==
    Lists \cup {RangeText(1, e) : e \in 0..MaxVal} \cup { <<"[", "b", "c", " ", "c", "]">> }

Suffixes == {<<>>} \cup {<<" ">> \o x : x \in SecondTemplates}
                   \cup { <<"[", "b", "c", " ", "c", "]">> }

TemplatedCommands ==
    {x[1] \o x[2] \o x[3] : x \in {<<>>, Str_echo} \X (Ranges \cup Lists) \X Suffixes}

Commands == CharStrings \cup TemplatedCommands

NameAlphabet == {"a", "-", " ", "["}

Str_run_value ==
    <<"r", "u", "n", " ", "-", "-", "v", "a", "l", "u", "e", " ",
      "1", "2", "3", "4", "5", "6", "7", "8">>

NameCommands ==
    UNION {[1..n -> NameAlphabet] : n \in 0..MaxNameCommandLen} \cup {Str_run_value}

\* Values of time.strftime("%Y-%m-%d_%H-%M-%S_").
Timestamps ==
    { <<"2", "0", "1", "5", "-", "0", "3", "-", "0", "9", "_",
        "0", "8", "-", "0", "0", "-", "5", "9", "_">>,
      <<"2", "0", "2", "6", "-", "1", "1", "-", "0", "4", "_",
        "1", "4", "-", "2", "0", "-", "0", "0", "_">> }

TimestampLen == Len(CHOOSE t \in Timestamps : TRUE)

ArgLengths == {None} \cup {Some(n) : n \in 0..MaxArgLength}

NameLengths ==
    {None, Some(0)} \cup {Some(n) : n \in (TimestampLen - 1)..(TimestampLen + MaxTailLength)}

UidPieces == {<<"e">>, <<"{">>, UID_TAG}

RECURSIVE PieceStrings(_)
PieceStrings(n) ==
    IF n = 0 THEN {<<>>}
    ELSE PieceStrings(n - 1) \cup {x[1] \o x[2] : x \in PieceStrings(n - 1) \X UidPieces}

UidCommands == PieceStrings(MaxUidPieces)

CommandLists == UNION {[1..n -> UidCommands] : n \in 0..MaxCommands}


\* ------------------------------------------------------------------- state
VARIABLES pc, command, text, matches, it, pos, arguments, result,
          max_length_arg, max_length, timestamp, name, commands

unfold_vars == <<text, matches, it, pos, arguments>>

name_vars == <<max_length_arg, max_length, timestamp, name>>

vars == <<pc, command, result, commands, unfold_vars, name_vars>>

Init ==
    /\ pc = "idle"
    /\ command = <<>>
    /\ text = <<>>
    /\ matches = <<>>
    /\ it = 0
    /\ pos = 0
    /\ arguments = <<>>
    /\ result = <<>>
    /\ max_length_arg = None
    /\ max_length = None
    /\ timestamp = <<>>
    /\ name = <<>>
    /\ commands = <<>>

\* ------------------------------------------------------- unfold_command
\* Lines 81-87: escape the command, start the scan.
Enter(cmd) ==
    /\ command' = cmd
    /\ text' = encode_escaped_characters(cmd)
    /\ matches' = finditer(encode_escaped_characters(cmd), 0)
    /\ it' = 0
    /\ pos' = 0
    /\ arguments' = <<>>
    /\ pc' = "scan"
    /\ UNCHANGED <<result, commands, name_vars>>

UnfoldCall ==
    /\ pc = "idle"
    /\ \E cmd \in Commands : Enter(cmd)

\* Variant: the matched text is kept as it is, not unfolded.
LoopBodyNoUnfold(args, t, p, match) ==
    [arguments |-> args \o << <<Slice(t, p, match.start)>>,
                              <<Slice(t, match.start, match.end)>> >>,
     pos |-> match.end]

\* Variant: the scan position is left at the start of the match.
LoopBodyPosAtStart(args, t, p, match) ==
    [arguments |-> args \o << <<Slice(t, p, match.start)>>,
                              unfold(match.name, Slice(t, match.start, match.end)) >>,
     pos |-> match.start]

\* Lines 90-95: one iteration of the loop over the matches.
LoopBody(args, t, p, match) ==
    [arguments |-> args \o << <<Slice(t, p, match.start)>>,
                              unfold(match.name, Slice(t, match.start, match.end)) >>,
     pos |-> match.end]

ScanMatch ==
    /\ pc = "scan"
    /\ it < Len(matches)
    /\ LET match == matches[it + 1]
       IN  IF UnfoldRaises(match.name, Slice(text, match.start, match.end))
           THEN /\ pc' = "raised"
                /\ arguments' = arguments \o << <<Slice(text, pos, match.start)>> >>
                /\ UNCHANGED pos
           ELSE LET after == LoopBody(arguments, text, pos, match)
                IN  /\ arguments' = after.arguments
                    /\ pos' = after.pos
                /\ pc' = "scan"
    /\ it' = it + 1
    /\ UNCHANGED <<command, text, matches, result, commands, name_vars>>

\* Variant: the remaining text starts one character late.
RemainingOffByOne(t, p) == <<Slice(t, p + 1, Len(t))>>

\* Variant: the remaining text is appended without the list around it, so
\* that each of its characters is an alternative.
RemainingNoBrackets(t, p) ==
    LET rest == Slice(t, p, Len(t)) IN [i \in 1..Len(rest) |-> <<rest[i]>>]

\* Line 97: the remaining literal text.
Remaining(t, p) == <<Slice(t, p, Len(t))>>

ScanEnd ==
    /\ pc = "scan"
    /\ it = Len(matches)
    /\ arguments' = Append(arguments, Remaining(text, pos))
    /\ pc' = "product"
    /\ UNCHANGED <<command, text, matches, it, pos, result, commands, name_vars>>

\* Line 98: unescape every value of every segment.
DecodeAll(args) ==
    [i \in 1..Len(args) |-> [j \in 1..Len(args[i]) |-> decode_escaped_characters(args[i][j])]]

\* Line 99: one command per tuple of the product.
Expand(args) == LET p == product(args) IN [k \in 1..Len(p) |-> Join(p[k])]

UnfoldReturn ==
    /\ pc = "product"
    /\ arguments' = DecodeAll(arguments)
    /\ result' = Expand(DecodeAll(arguments))
    /\ pc' = "done"
    /\ UNCHANGED <<command, text, matches, it, pos, commands, name_vars>>

NextUnfold ==
    \/ UnfoldCall
    \/ ScanMatch
    \/ ScanEnd
    \/ UnfoldReturn

SpecUnfold == Init /\ [][NextUnfold]_vars

\* ------------------------------------- generate_name_from_command (15-40)
NameCall ==
    /\ pc = "idle"
    /\ \E cmd \in NameCommands, a \in ArgLengths, b \in NameLengths, time \in Timestamps :
          /\ command' = cmd
          /\ max_length_arg' = a
          /\ max_length' = b
          /\ timestamp' = time
          /\ name' = generate_name_from_command(time, cmd, a, b)
    /\ pc' = "named"
    /\ UNCHANGED <<result, commands, unfold_vars>>

NextName == NameCall

SpecName == Init /\ [][NextName]_vars

\* ----------------------------------------------- replace_uid_tag (102-103)
UidCall ==
    /\ pc = "idle"
    /\ \E cmds \in CommandLists :
          /\ commands' = cmds
          /\ result' = replace_uid_tag(cmds)
    /\ pc' = "tagged"
    /\ UNCHANGED <<command, unfold_vars, name_vars>>

NextUid == UidCall

SpecUid == Init /\ [][NextUid]_vars

Next == NextUnfold \/ NextName \/ NextUid

Spec == Init /\ [][Next]_vars

\* =================================================== properties: unfolding
\* No substring of the escaped text t is a folded argument.
NoFoldedArgument(t) ==
    \A a \in 1..Len(t) : \A b \in (a + 1)..Len(t) :
        ~(/\ Is(t[a], "[")
          /\ Is(t[b], "]")
          /\ (IsRangeBody(SubSeq(t, a + 1, b - 1)) \/ IsListBody(SubSeq(t, a + 1, b - 1))))

\* The command without its escape markers.
Unescaped(cmd) == decode_escaped_characters(encode_escaped_characters(cmd))

\* C1: a command without folded argument unfolds to exactly one command, the
\* command itself in its unescaped form.
C1_NoFoldedArgumentIsItself ==
    (pc = "done" /\ NoFoldedArgument(encode_escaped_characters(command)))
        => result = <<Unescaped(command)>>

C1_Witness ==
    /\ pc = "done"
    /\ command = <<"\\", "[", "1", ":", "]">>
    /\ NoFoldedArgument(text)
    /\ result = << <<"[", "1", ":", "]">> >>

\* The command made of the i-th alternative of the first folded argument and
\* the j-th of the second (two folded arguments, after the return).
Combination(i, j) ==
    arguments[1][1] \o arguments[2][i] \o arguments[3][1] \o arguments[4][j] \o arguments[5][1]

TwoFolded == pc = "done" /\ Len(matches) = 2

Pairs == (1..Len(arguments[2])) \X (1..Len(arguments[4]))

\* C2 as stated: m*n commands, one per pair of alternatives, and no two
\* returned commands equal.
C2_ProductAllDistinct ==
    TwoFolded =>
        /\ Len(result) = Len(arguments[2]) * Len(arguments[4])
        /\ \A x \in Pairs : \E k \in 1..Len(result) : result[k] = Combination(x[1], x[2])
        /\ \A k1, k2 \in 1..Len(result) : k1 # k2 => result[k1] # result[k2]

\* C2 amended: m*n commands, one per pair of alternatives: every command is
\* returned as many times as there are pairs that produce it.
C2_ProductOnePerPair ==
    TwoFolded =>
        /\ Len(result) = Len(arguments[2]) * Len(arguments[4])
        /\ \A x \in Pairs :
              Cardinality({k \in 1..Len(result) : result[k] = Combination(x[1], x[2])})
                  = Cardinality({y \in Pairs : Combination(y[1], y[2]) = Combination(x[1], x[2])})

C2_Witness ==
    /\ TwoFolded
    /\ command = <<"[", "a", " ", "a", "]", " ", "[", "1", ":", "3", "]">>
    /\ Len(result) = 6
    /\ result[1] = result[4]

\* Number of alternatives of the i-th templated segment.
Size(i) == Len(arguments[2 * i])

RECURSIVE SizesFrom(_)
SizesFrom(i) == IF i > Len(matches) THEN 1 ELSE Size(i) * SizesFrom(i + 1)

\* Index of the alternative of the i-th templated segment chosen in the k-th
\* returned command: the digits of k - 1 in the mixed radix of the sizes.
Chosen(k, i) == (((k - 1) \div SizesFrom(i + 1)) % Size(i)) + 1

Piece(k, s) == IF s % 2 = 1 THEN arguments[s][1] ELSE arguments[s][Chosen(k, s \div 2)]

Str_echo_a_b_1_3 ==
    <<"e", "c", "h", "o", " ", "[", "a", " ", "b", "]", " ", "[", "1", ":", "3", "]">>

\* C3: the returned commands are in the lexicographic order of the chosen
\* alternatives, the rightmost templated segment varying fastest.
C3_RightmostFastest ==
    pc = "done" =>
        /\ Len(result) = SizesFrom(1)
        /\ \A k \in 1..Len(result) :
              result[k] = Flatten([s \in 1..Len(arguments) |-> Piece(k, s)])
        /\ command = Str_echo_a_b_1_3 =>
              result = << <<"e", "c", "h", "o", " ", "a", " ", "1">>,
                          <<"e", "c", "h", "o", " ", "a", " ", "2">>,
                          <<"e", "c", "h", "o", " ", "a", " ", "3">>,
                          <<"e", "c", "h", "o", " ", "b", " ", "1">>,
                          <<"e", "c", "h", "o", " ", "b", " ", "2">>,
                          <<"e", "c", "h", "o", " ", "b", " ", "3">> >>
        /\ command = <<"[", "a", " ", "b", " ", "c", "]">> =>
              result = << <<"a">>, <<"b">>, <<"c">> >>

C3_Witness ==
    /\ pc = "done"
    /\ command = Str_echo_a_b_1_3
    /\ Len(result) = 6
    /\ result[2] = <<"e", "c", "h", "o", " ", "a", " ", "2">>

Abs(i) == IF i < 0 THEN 0 - i ELSE i

\* start, start + step, ... without passing end, as decimal strings.
Steps(start, end, step) ==
    [i \in 1..((Abs(end - start) \div Abs(step)) + 1) |-> IntToStr(start + (i - 1) * step)]

Reaches(start, end, step) == (end - start) * step >= 0 /\ step # 0

\* C4: a range whose step can reach end from start unfolds to start,
\* start + step, ... up to and including end when it is hit, never passing it.
C4_RangeInclusive ==
    pc = "done" =>
        /\ \A s, e \in Vals :
              (command = RangeText(s, e) /\ Reaches(s, e, 1)) => result = Steps(s, e, 1)
        /\ \A s, e \in Vals : \A st \in StepVals :
              (command = RangeStepText(s, e, st) /\ Reaches(s, e, st)) => result = Steps(s, e, st)
        /\ command = <<"[", "1", ":", "5", "]">> =>
              result = << <<"1">>, <<"2">>, <<"3">>, <<"4">>, <<"5">> >>
        /\ command = <<"[", "1", ":", "5", ":", "2", "]">> =>
              result = << <<"1">>, <<"3">>, <<"5">> >>
        /\ command = <<"[", "5", ":", "1", ":", "-", "1", "]">> =>
              result = << <<"5">>, <<"4">>, <<"3">>, <<"2">>, <<"1">> >>
        /\ command = <<"[", "-", "1", ":", "2", ":", "2", "]">> =>
              result = << <<"-", "1">>, <<"1">> >>

C4_Witness ==
    /\ pc = "done"
    /\ command = <<"[", "5", ":", "0", ":", "-", "2", "]">>
    /\ result = << <<"5">>, <<"3">>, <<"1">> >>

\* The i-th match is a range whose step has the wrong sign to reach its end.
WrongSign(i) ==
    /\ matches[i].name = "range"
    /\ LET f == SplitOn(SubSeq(text, matches[i].start + 2, matches[i].end - 1), ":")
           start == StrToInt(f[1])
           end == StrToInt(f[2])
           step == IF Len(f) = 3 THEN StrToInt(f[3]) ELSE 1
       IN  (end - start) * step < 0

\* C5: a range whose step has the wrong sign raises nothing and unfolds to
\* nothing, and a command that contains one unfolds to no command at all.
C5_WrongSignIsEmpty ==
    /\ (pc = "raised" => ~WrongSign(it))
    /\ (pc \in {"scan", "product"} =>
           \A i \in 1..it : WrongSign(i) => arguments[2 * i] = <<>>)
    /\ (pc = "done" => ((\E i \in 1..Len(matches) : WrongSign(i)) => result = <<>>))

C5_Witness ==
    /\ pc = "done"
    /\ command = Str_echo \o <<"[", "1", ":", "5", ":", "-", "1", "]", " ", "[", "a", " ", "b", "]">>
    /\ Len(matches) = 2
    /\ result = <<>>

\* C6 as stated: whenever unfold_command returns, it returns at least one
\* command.
C6_NeverEmpty == pc = "done" => result # <<>>

\* C6 amended: whenever unfold_command returns, it returns at least one
\* command unless the command contains a range whose step has the wrong sign
\* to reach its end, and then it returns none.
C6_EmptyOnlyForWrongSign ==
    pc = "done" => (result = <<>> <=> \E i \in 1..Len(matches) : WrongSign(i))

C6_Witness ==
    /\ pc = "done"
    /\ command = <<"[", "3", ":", "3", ":", "-", "1", "]">>
    /\ result = << <<"3">> >>

\* The escaped text covered after k matches: each literal segment followed by
\* the matched text of the templated segment after it.
RECURSIVE Covered(_)
Covered(k) ==
    IF k = 0 THEN <<>>
    ELSE Covered(k - 1) \o arguments[2 * k - 1][1]
                        \o Slice(text, matches[k].start, matches[k].end)

LiteralsAreSingle == \A i \in 1..Len(arguments) : i % 2 = 1 => Len(arguments[i]) = 1

ScanInv ==
    /\ pc = "scan" =>
          /\ Len(arguments) = 2 * it
          /\ LiteralsAreSingle
          /\ Covered(it) = Slice(text, 0, pos)
    /\ pc = "product" =>
          /\ Len(arguments) = 2 * Len(matches) + 1
          /\ LiteralsAreSingle
          /\ Covered(Len(matches)) \o arguments[Len(arguments)][1] = text

\* C10: the scan position never decreases; after k matches the segment list
\* has 2k entries alternating literal and templated, 2k+1 at the end, and the
\* literal texts with the matched texts, in order, are the escaped command.
C10_ScanCoversText == []ScanInv /\ [][pos' >= pos]_vars

C10_Witness ==
    /\ pc = "product"
    /\ Len(matches) = 2
    /\ Len(arguments) = 5
    /\ arguments[1][1] = <<>>
    /\ arguments[3][1] = <<>>
    /\ pos > 0

\* ====================================================== properties: names
\* The last n characters of s, the whole of s when it is not longer.
LastChars(s, n) == SubSeq(s, Max(Len(s) - n, 0) + 1, Len(s))

\* The name whose every token is cut to the last n characters of its slug.
NameOfLastChars(n) ==
    LET tokens == split(command)
    IN  timestamp \o JoinWith(<<"_">>, [i \in 1..Len(tokens) |-> LastChars(slugify(tokens[i]), n)])

\* The name whose tokens are the whole slugs.
NameOfWholeSlugs ==
    LET tokens == split(command)
    IN  timestamp \o JoinWith(<<"_">>, [i \in 1..Len(tokens) |-> slugify(tokens[i])])

\* C7: with max_length omitted, every token appears in the name as the last
\* max_length_arg characters of its slug (max_length_arg >= 0), and as its
\* whole slug when max_length_arg is omitted.
C7_TokensKeepLastChars ==
    (pc = "named" /\ ~max_length.given) =>
        IF max_length_arg.given
        THEN name = NameOfLastChars(max_length_arg.val)
        ELSE name = NameOfWholeSlugs

RECURSIVE CountTag(_)
CountTag(s) ==
    IF s = <<>> THEN 0
    ELSE IF StartsWith(s, UID_TAG) THEN 1 + CountTag(SubSeq(s, Len(UID_TAG) + 1, Len(s)))
    ELSE CountTag(Tail(s))

\* C9: one command per input command, in order; command i has every {UID}
\* replaced by one identifier that depends on its own text alone, and is
\* returned unchanged when it has no {UID}.
C9_UidOfOwnText ==
    pc = "tagged" =>
        /\ Len(result) = Len(commands)
        /\ \A i \in 1..Len(commands) :
              LET uid == generate_uid_from_string(commands[i])
              IN  /\ result[i] = Replace(commands[i], UID_TAG, uid)
                  /\ CountTag(commands[i]) = 0 => result[i] = commands[i]
                  /\ Len(result[i]) = Len(commands[i])
                                        + CountTag(commands[i]) * (Len(uid) - Len(UID_TAG))
                  /\ \A j \in 1..Len(commands) : commands[j] = commands[i] => result[j] = result[i]

C9_Witness ==
    /\ pc = "tagged"
    /\ commands = <<UID_TAG \o UID_TAG, <<"e">> \o UID_TAG>>
    /\ result[1] = generate_uid_from_string(commands[1]) \o generate_uid_from_string(commands[1])
    /\ result[2] = <<"e">> \o generate_uid_from_string(commands[2])
    /\ generate_uid_from_string(commands[1]) # generate_uid_from_string(commands[2])

====
